---- MODULE Spec2Model ----
(***************************************************************************)
(* Table-level lineage resolution of src/app.py: get_production_lineage    *)
(* takes one SQL statement, parses it, registers the CTEs, resolves the    *)
(* write target, traces table references into a directed graph and formats *)
(* the graph as node and edge lists.  Any exception is turned into the     *)
(* empty result.                                                           *)
(*                                                                         *)
(* The statement is represented by the syntax tree sqlglot builds for it:  *)
(*   Table  [db, this, quoted]     a table reference  db.this              *)
(*   Select [with, from]           a query: its WITH list and the tables   *)
(*                                 of its FROM and JOIN clauses            *)
(*   CTE    [alias, this]          alias AS (this), this a Select          *)
(*   Insert [with, this, expression]  INSERT INTO this / CREATE TABLE this *)
(*                                 AS, the WITH list written in front of   *)
(*                                 the statement and the query written     *)
(*                                 after the target (none for VALUES)      *)
(* find and find_all enumerate a subtree breadth first.                    *)
(***************************************************************************)
EXTENDS Naturals, Sequences, FiniteSets, TLC

VARIABLES sql, pc, parsed, cte_registry, target_name, G, result, raised

vars == <<sql, pc, parsed, cte_registry, target_name, G, result, raised>>

(* Bound of the statements explored: the CTE definitions plus the table
   references of one statement (the write target not counted). *)
MaxNodes == 4

(* ---------------------------------------------------------------- values *)

None == "<None>"

NoTree == [kind |-> "None"]

Range(s) == {s[i] : i \in DOMAIN s}

RECURSIVE Concat(_)
Concat(ss) == IF ss = <<>> THEN <<>> ELSE Head(ss) \o Concat(Tail(ss))

(* ------------------------------------------------------------ the inputs *)

Identifiers == {"a", "t"}

Table(db, this, quoted) == [kind |-> "Table", db |-> db, this |-> this, quoted |-> quoted]

Tables == {Table("", "a", FALSE), Table("", "t", FALSE), Table("s", "t", FALSE), Table("", "a", TRUE)}

Targets == {Table("s", "t", FALSE)}

Select(with, from) == [kind |-> "Select", with |-> with, from |-> from]

CTE(alias, this) == [kind |-> "CTE", alias |-> alias, this |-> this]

Insert(with, this, expression) == [kind |-> "Insert", with |-> with, this |-> this, expression |-> expression]

(* Entry k + 1 of levels: the WITH lists (ctes) and the queries (selects) made
   of exactly k CTE definitions and table references in all, each level built
   from the levels below it. *)
WithLists(k, levels) ==
    IF k = 0 THEN {<<>>}
    ELSE UNION {{<<CTE(a, s)>> \o rest :
                    a \in Identifiers, s \in levels[i + 1].selects, rest \in levels[k - i].ctes} :
                i \in 0..(k - 1)}

RECURSIVE Levels(_, _)
Levels(n, levels) ==
    IF Len(levels) > n THEN levels
    ELSE LET k == Len(levels)
             ctes == WithLists(k, levels)
             selects == {Select(w, <<>>) : w \in ctes} \cup
                        UNION {{Select(w, f) : w \in levels[k - j + 1].ctes, f \in [1..j -> Tables]} :
                               j \in 1..k}
         IN Levels(n, Append(levels, [ctes |-> ctes, selects |-> selects]))

LevelTable == Levels(MaxNodes, <<>>)

Malformed == [malformed |-> TRUE, tree |-> NoTree]

WellFormed(tree) == [malformed |-> FALSE, tree |-> tree]

(* The statements of at most MaxNodes CTE definitions and table references:
   a text that does not parse, a plain query, or a write with a WITH list in
   front, a target, and a query or none. *)
IsInput(text) ==
    \/ text = Malformed
    \/ \E k \in 0..MaxNodes : \E s \in LevelTable[k + 1].selects : text = WellFormed(s)
    \/ \E i \in 0..MaxNodes : \E w \in LevelTable[i + 1].ctes : \E t \in Targets :
          \/ text = WellFormed(Insert(w, t, <<>>))
          \/ \E j \in 0..(MaxNodes - i) : \E s \in LevelTable[j + 1].selects :
                text = WellFormed(Insert(w, t, <<s>>))

(* ------------------------------------------------- sqlglot: tree and names *)

(* parse_one: a statement that does not parse raises, one that does gives its
   tree. *)
ParseOne(text) == text.tree

(* The nodes of a subtree in the order they are written, each with its depth
   below the root.  A WITH list hangs one level below its statement (the With
   node), a FROM or JOIN table one level below its query (the From, Join
   node). *)
RECURSIVE Walk(_, _), WalkAll(_, _)
Walk(node, d) ==
    <<[depth |-> d, node |-> node]>> \o
    CASE node.kind = "Table" -> <<>>
      [] node.kind = "CTE" -> Walk(node.this, d + 1)
      [] node.kind = "Select" -> WalkAll(node.with, d + 2) \o WalkAll(node.from, d + 2)
      [] node.kind = "Insert" ->
            WalkAll(node.with, d + 2) \o Walk(node.this, d + 1) \o WalkAll(node.expression, d + 1)
      [] OTHER -> <<>>

WalkAll(nodes, d) ==
    IF nodes = <<>> THEN <<>> ELSE Walk(Head(nodes), d) \o WalkAll(Tail(nodes), d)

RECURSIVE FromDepth(_, _, _)
FromDepth(walk, d, last) ==
    IF d > last THEN <<>>
    ELSE SelectSeq(walk, LAMBDA x : x.depth = d) \o FromDepth(walk, d + 1, last)

(* Expression.bfs: the subtree level by level, each level in written order. *)
Bfs(node) ==
    LET walk == Walk(node, 0)
        last == CHOOSE d \in {walk[i].depth : i \in DOMAIN walk} :
                    \A i \in DOMAIN walk : walk[i].depth <= d
        sorted == FromDepth(walk, 0, last)
    IN [i \in DOMAIN sorted |-> sorted[i].node]

(* Expression.find_all(kinds) *)
FindAll(node, kinds) == SelectSeq(Bfs(node), LAMBDA x : x.kind \in kinds)

(* Expression.find(kinds): the first of find_all, or None (here <<>>). *)
Find(node, kinds) ==
    LET all == FindAll(node, kinds) IN IF all = <<>> THEN <<>> ELSE <<Head(all)>>

(* table.this.sql(): the table's identifier alone, without db or catalog,
   in double quotes when it was written quoted. *)
TableName(table) == IF table.quoted THEN "\"" \o table.this \o "\"" ELSE table.this

(* ------------------------------------------------------ networkx DiGraph *)

(* nodes in insertion order, each node's attribute dictionary, and each
   node's successors in insertion order. *)
EmptyGraph == [nodes |-> <<>>, attrs |-> <<>>, succ |-> <<>>]

NoAttrs == [k \in {} |-> ""]

Get(dict, key, default) == IF key \in DOMAIN dict THEN dict[key] ELSE default

Update(dict, new) ==
    [k \in DOMAIN dict \cup DOMAIN new |-> IF k \in DOMAIN new THEN new[k] ELSE dict[k]]

HasNode(g, n) == n \in Range(g.nodes)

(* G.add_node(n, **attrs): a new node, or new attributes of an old one. *)
AddNode(g, n, attrs) ==
    IF HasNode(g, n)
    THEN [g EXCEPT !.attrs = [m \in DOMAIN g.attrs |->
                                 IF m = n THEN Update(g.attrs[m], attrs) ELSE g.attrs[m]]]
    ELSE [nodes |-> Append(g.nodes, n),
          attrs |-> [m \in DOMAIN g.attrs \cup {n} |-> IF m = n THEN attrs ELSE g.attrs[m]],
          succ |-> [m \in DOMAIN g.succ \cup {n} |-> IF m = n THEN <<>> ELSE g.succ[m]]]

(* G.add_edge(u, v): both endpoints become nodes, the edge is kept once. *)
AddEdge(g, u, v) ==
    LET g1 == AddNode(AddNode(g, u, NoAttrs), v, NoAttrs)
    IN IF v \in Range(g1.succ[u]) THEN g1
       ELSE [g1 EXCEPT !.succ = [m \in DOMAIN g1.succ |->
                                    IF m = u THEN Append(g1.succ[m], v) ELSE g1.succ[m]]]

(* G.in_degree(n) *)
InDegree(g, n) == Cardinality({u \in Range(g.nodes) : n \in Range(g.succ[u])})

(* G.edges(): by source in node order, then by successor order. *)
Edges(g) ==
    Concat([i \in DOMAIN g.nodes |->
               [j \in DOMAIN g.succ[g.nodes[i]] |-> <<g.nodes[i], g.succ[g.nodes[i]][j]>>]])

(* ------------------------------------------------ get_production_lineage *)

(* The dict comprehension: a key keeps the place of its first occurrence and
   the value of its last. *)
RECURSIVE DictOf(_)
DictOf(ctes) ==
    IF ctes = <<>> THEN <<>>
    ELSE LET front == DictOf(SubSeq(ctes, 1, Len(ctes) - 1))
             cte == ctes[Len(ctes)]
         IN IF \E i \in DOMAIN front : front[i].alias = cte.alias
            THEN [i \in DOMAIN front |->
                     IF front[i].alias = cte.alias THEN [alias |-> cte.alias, cte |-> cte]
                     ELSE front[i]]
            ELSE Append(front, [alias |-> cte.alias, cte |-> cte])

(* The CTEs of the WITH list attached to the statement itself or to its
   primary query. *)
TopLevelCtes(tree) ==
    IF tree.kind = "Insert"
    THEN tree.with \o Concat([i \in DOMAIN tree.expression |-> tree.expression[i].with])
    ELSE tree.with

FindTopLevelCTE(tree) == TopLevelCtes(tree)

(* parsed.find_all(exp.CTE) *)
FindAllCTE(tree) == FindAll(tree, {"CTE"})

(* Step 2, the registry. *)
CteRegistry(tree) == DictOf(FindAllCTE(tree))

Aliases(registry) == {registry[i].alias : i \in DOMAIN registry}

Truthy(name) == name # None /\ name # ""

(* Step 3, the target: the first table of the last Create or Insert. *)
RECURSIVE LastTarget(_, _)
LastTarget(statements, name) ==
    IF statements = <<>> THEN name
    ELSE LET table == Find(Head(statements), {"Table"})
         IN LastTarget(Tail(statements), IF table # <<>> THEN TableName(table[1]) ELSE name)

TargetName(tree) == LastTarget(FindAll(tree, {"Create", "Insert"}), None)

TraceOneUnguarded(g, source, node_name) == AddEdge(g, source, node_name)

TraceOneReversed(g, source, node_name) ==
    IF source # node_name THEN AddEdge(g, node_name, source) ELSE g

(* The body of trace_dependencies' loop. *)
TraceOne(g, source, node_name) ==
    IF source # node_name THEN AddEdge(g, source, node_name) ELSE g

RECURSIVE TraceTables(_, _, _)
TraceTables(g, tables, node_name) ==
    IF tables = <<>> THEN g
    ELSE TraceTables(TraceOne(g, TableName(Head(tables)), node_name), Tail(tables), node_name)

(* Step 4, trace_dependencies(expression, node_name) *)
TraceDependencies(g, expression, node_name) ==
    TraceTables(g, FindAll(expression, {"Table"}), node_name)

CteAttrs(alias) == [label |-> "CTE: " \o alias, type |-> "CTE", color |-> "#4da6ff"]

TargetAttrs(name) == [label |-> name, type |-> "TARGET", color |-> "#4dff88"]

(* Step 5, the loop over the registry. *)
RECURSIVE CteLinks(_, _)
CteLinks(g, registry) ==
    IF registry = <<>> THEN g
    ELSE CteLinks(TraceDependencies(AddNode(g, Head(registry).alias, CteAttrs(Head(registry).alias)),
                                    Head(registry).cte, Head(registry).alias),
                  Tail(registry))

TargetLinkAlways(g, tree, name) ==
    LET g1 == AddNode(g, name, TargetAttrs(name))
        main_select == Find(tree, {"Select"})
    IN IF main_select # <<>> THEN TraceDependencies(g1, main_select[1], name) ELSE g1

(* Step 6, the link to the target. *)
TargetLink(g, tree, name) ==
    IF Truthy(name)
    THEN LET g1 == AddNode(g, name, TargetAttrs(name))
             main_select == Find(tree, {"Select"})
         IN IF main_select # <<>> THEN TraceDependencies(g1, main_select[1], name) ELSE g1
    ELSE g

IsRawByDegree(g, node, name) == InDegree(g, node) = 0

(* is_raw *)
IsRaw(g, node, name) == InDegree(g, node) = 0 /\ node # name

(* Step 7, the node and edge lists. *)
FormatNode(g, node, name) ==
    [id |-> node,
     label |-> IF IsRaw(g, node, name) THEN "RAW: " \o node ELSE Get(g.attrs[node], "label", node),
     color |-> IF IsRaw(g, node, name) THEN "#ff4d4d" ELSE Get(g.attrs[node], "color", "#4da6ff")]

Format(g, name) ==
    [nodes |-> [i \in DOMAIN g.nodes |-> FormatNode(g, g.nodes[i], name)],
     edges |-> [i \in DOMAIN Edges(g) |-> [from |-> Edges(g)[i][1], to |-> Edges(g)[i][2]]]]

EmptyResult == [nodes |-> <<>>, edges |-> <<>>]

OnExceptionPartial(g, name) == Format(g, name)

(* The except clause: whatever was built is dropped. *)
OnException(g, name) == EmptyResult

(* --------------------------------------------------------------- actions *)

Init ==
    /\ IsInput(sql)
    /\ pc = "parse"
    /\ parsed = NoTree
    /\ cte_registry = <<>>
    /\ target_name = None
    /\ G = EmptyGraph
    /\ result = EmptyResult
    /\ raised = FALSE

Parse ==
    /\ pc = "parse"
    /\ ~sql.malformed
    /\ parsed' = ParseOne(sql)
    /\ G' = EmptyGraph
    /\ pc' = "registry"
    /\ UNCHANGED <<sql, cte_registry, target_name, result, raised>>

BuildRegistry ==
    /\ pc = "registry"
    /\ cte_registry' = CteRegistry(parsed)
    /\ pc' = "target"
    /\ UNCHANGED <<sql, parsed, target_name, G, result, raised>>

ResolveTarget ==
    /\ pc = "target"
    /\ target_name' = TargetName(parsed)
    /\ pc' = "cte_links"
    /\ UNCHANGED <<sql, parsed, cte_registry, G, result, raised>>

BuildCTELinks ==
    /\ pc = "cte_links"
    /\ G' = CteLinks(G, cte_registry)
    /\ pc' = "target_link"
    /\ UNCHANGED <<sql, parsed, cte_registry, target_name, result, raised>>

BuildTargetLink ==
    /\ pc = "target_link"
    /\ G' = TargetLink(G, parsed, target_name)
    /\ pc' = "format"
    /\ UNCHANGED <<sql, parsed, cte_registry, target_name, result, raised>>

FormatAndReturn ==
    /\ pc = "format"
    /\ result' = Format(G, target_name)
    /\ pc' = "done"
    /\ UNCHANGED <<sql, parsed, cte_registry, target_name, G, raised>>

(* An exception anywhere in the try block: the parse error of a malformed
   statement, or a fault in a later step. *)
Except ==
    /\ pc # "done"
    /\ pc = "parse" => sql.malformed
    /\ result' = OnException(G, target_name)
    /\ raised' = TRUE
    /\ pc' = "done"
    /\ UNCHANGED <<sql, parsed, cte_registry, target_name, G>>

Next ==
    \/ Parse
    \/ BuildRegistry
    \/ ResolveTarget
    \/ BuildCTELinks
    \/ BuildTargetLink
    \/ FormatAndReturn
    \/ Except

Spec == Init /\ [][Next]_vars

(* The chain statements: CTE c1 reads a raw table, CTE c2 reads c1, the
   primary query reads c2, with the WITH list written in front of the write
   statement or in front of its query. *)
ChainAliases == {"a", "b", "c"}

ChainRaws == {Table("", "r", FALSE), Table("s", "r", FALSE), Table("", "r", TRUE)}

ChainTargets == {Table("", "t", FALSE), Table("s", "t", FALSE)}

ChainCtes(c1, c2, raw) ==
    <<CTE(c1, Select(<<>>, <<raw>>)), CTE(c2, Select(<<>>, <<Table("", c1, FALSE)>>))>>

IsChainInput(text) ==
    \E c1 \in ChainAliases : \E c2 \in ChainAliases \ {c1} : \E raw \in ChainRaws :
    \E t \in ChainTargets :
        \/ text = WellFormed(Insert(ChainCtes(c1, c2, raw), t,
                                    <<Select(<<>>, <<Table("", c2, FALSE)>>)>>))
        \/ text = WellFormed(Insert(<<>>, t,
                                    <<Select(ChainCtes(c1, c2, raw), <<Table("", c2, FALSE)>>)>>))

InitChain ==
    /\ IsChainInput(sql)
    /\ pc = "parse"
    /\ parsed = NoTree
    /\ cte_registry = <<>>
    /\ target_name = None
    /\ G = EmptyGraph
    /\ result = EmptyResult
    /\ raised = FALSE

SpecChain == InitChain /\ [][Next]_vars

(* ---------------------------------------------------------------- claims *)

Returned == pc = "done" /\ ~raised

NodeIds == {result.nodes[i].id : i \in DOMAIN result.nodes}

EdgePairs == {<<result.edges[i].from, result.edges[i].to>> : i \in DOMAIN result.edges}

(* Every CTE definition of a WITH list, nested ones included. *)
RECURSIVE CtesWithin(_)
CtesWithin(with) == UNION {{with[i]} \cup CtesWithin(with[i].this.with) : i \in DOMAIN with}

CtesOf(tree) ==
    CASE tree.kind = "Insert" ->
            CtesWithin(tree.with) \cup
            UNION {CtesWithin(tree.expression[i].with) : i \in DOMAIN tree.expression}
      [] tree.kind = "Select" -> CtesWithin(tree.with)
      [] OTHER -> {}

(* Every table reference inside a query, those of its CTEs included. *)
RECURSIVE TablesWithin(_)
TablesWithin(select) ==
    Range(select.from) \cup UNION {TablesWithin(select.with[i].this) : i \in DOMAIN select.with}

(* The table name as written: db.name when qualified. *)
WrittenName(table) ==
    IF table.db = "" THEN TableName(table) ELSE table.db \o "." \o TableName(table)

Owners == Aliases(cte_registry) \cup (IF Truthy(target_name) THEN {target_name} ELSE {})

(* C1: no edge of the graph or of the returned edge list has the same name at
   both ends, also when a CTE body or the target's query refers to its own
   name. *)
C1_NoSelfLoop ==
    /\ \A u \in DOMAIN G.succ : u \notin Range(G.succ[u])
    /\ \A i \in DOMAIN result.edges : result.edges[i].from # result.edges[i].to

C1_Witness ==
    /\ Returned
    /\ result.edges # <<>>
    /\ \E c \in CtesOf(parsed) : \E t \in TablesWithin(c.this) : TableName(t) = c.alias

(* C2: every returned node whose name is a registered CTE alias (and is not the
   target) is labelled "CTE: <name>", never "RAW: <name>", also when nothing
   points to it. *)
C2_CteAliasLabelledCte ==
    Returned =>
        \A i \in DOMAIN result.nodes :
            (result.nodes[i].id \in Aliases(cte_registry) /\ result.nodes[i].id # target_name)
                => result.nodes[i].label = "CTE: " \o result.nodes[i].id

(* C3: when the parse or a later step raises, the call still returns, and what
   it returns is the empty node list and the empty edge list, whatever the
   graph held at that point. *)
C3_FailureGivesEmpty ==
    raised => (pc = "done" /\ result = [nodes |-> <<>>, edges |-> <<>>])

C3_Witness ==
    /\ pc = "done"
    /\ raised
    /\ G.nodes # <<>>
    /\ Edges(G) # <<>>

(* C4: for a write statement with no CTE and a query, the result has exactly
   one target node, one raw-source node for each distinct table the query
   reads (other than the target table itself), and from each raw source exactly
   one edge, which goes to the target. *)
C4_OneRawPerDistinctTable ==
    (Returned /\ parsed.kind = "Insert" /\ CtesOf(parsed) = {} /\ parsed.expression # <<>>) =>
        LET read == Range(parsed.expression[1].from) \ {parsed.this}
            raw == {i \in DOMAIN result.nodes :
                       result.nodes[i].label = "RAW: " \o result.nodes[i].id}
        IN /\ Cardinality({i \in DOMAIN result.nodes : result.nodes[i].color = "#4dff88"}) = 1
           /\ Cardinality(raw) = Cardinality(read)
           /\ \A i \in raw :
                  {e \in EdgePairs : e[1] = result.nodes[i].id}
                      = {<<result.nodes[i].id, target_name>>}

(* C5: for a chain statement the returned edges are exactly raw -> c1,
   c1 -> c2, c2 -> target, wherever the WITH list is attached. *)
C5_ChainIsSimplePath ==
    Returned =>
        LET ctes == TopLevelCtes(parsed)
        IN EdgePairs = {<<TableName(ctes[1].this.from[1]), ctes[1].alias>>,
                        <<ctes[1].alias, ctes[2].alias>>,
                        <<ctes[2].alias, target_name>>}

(* C6: a table the target's query reads that has the target's name but another
   schema gets a node name different from the target's and an edge to the
   target. *)
C6_OtherSchemaIsOtherNode ==
    (Returned /\ parsed.kind = "Insert" /\ parsed.expression # <<>>) =>
        \A t \in Range(parsed.expression[1].from) :
            (WrittenName(t) # WrittenName(parsed.this)) =>
                /\ TableName(t) # target_name
                /\ <<TableName(t), target_name>> \in EdgePairs

(* C7 as stated: the registry holds only CTEs of the WITH list attached to the
   statement, none defined inside another CTE's body. *)
C7_OnlyTopLevelRegistered ==
    \A i \in DOMAIN cte_registry : cte_registry[i].cte \in Range(TopLevelCtes(parsed))

RegistryBuilt == pc \in {"target", "cte_links", "target_link", "format"} \/ Returned

(* C7 as amended: the registry holds an entry for the alias of every CTE
   definition anywhere in the tree, nested ones included, one entry per alias,
   its definition the last one enumerated with that alias; every such alias is
   a returned node, and every table inside a registered definition whose name
   differs from the alias has an edge to the alias. *)
C7_AllCtesRegistered ==
    /\ RegistryBuilt =>
          /\ Aliases(cte_registry) = {c.alias : c \in CtesOf(parsed)}
          /\ \A i, j \in DOMAIN cte_registry :
                 cte_registry[i].alias = cte_registry[j].alias => i = j
          /\ \A i \in DOMAIN cte_registry :
                 LET all == FindAll(parsed, {"CTE"})
                 IN \E k \in DOMAIN all :
                       /\ all[k] = cte_registry[i].cte
                       /\ all[k].alias = cte_registry[i].alias
                       /\ \A m \in DOMAIN all : m > k => all[m].alias # all[k].alias
    /\ Returned =>
          /\ \A c \in CtesOf(parsed) : c.alias \in NodeIds
          /\ \A i \in DOMAIN cte_registry :
                 \A t \in TablesWithin(cte_registry[i].cte.this) :
                    TableName(t) # cte_registry[i].alias
                        => <<TableName(t), cte_registry[i].alias>> \in EdgePairs

C7_Witness ==
    /\ Returned
    /\ \E c \in CtesOf(parsed) :
          /\ c.alias \notin {TopLevelCtes(parsed)[i].alias : i \in DOMAIN TopLevelCtes(parsed)}
          /\ \E i \in DOMAIN result.nodes :
                 result.nodes[i].id = c.alias /\ result.nodes[i].label = "CTE: " \o c.alias
          /\ \E e \in EdgePairs : e[2] = c.alias

(* C8: when a target is resolved, exactly one returned node has the target's
   name and it carries the target's label and colour, also when nothing points
   to it and when a CTE has the same name. *)
C8_TargetNodePresented ==
    (Returned /\ Truthy(target_name)) =>
        /\ Cardinality({i \in DOMAIN result.nodes : result.nodes[i].id = target_name}) = 1
        /\ \A i \in DOMAIN result.nodes :
               result.nodes[i].id = target_name =>
                   result.nodes[i].label = target_name /\ result.nodes[i].color = "#4dff88"

C8_Witness ==
    /\ Returned
    /\ Truthy(target_name)
    /\ target_name \in Aliases(cte_registry)
    /\ InDegree(G, target_name) = 0
    /\ target_name \in NodeIds

(* C9: every returned edge ends at a registered CTE alias or at the target; a
   node that is neither has no incoming edge and is labelled raw; no node with
   an incoming edge is neither. *)
C9_EdgesEndAtOwners ==
    Returned =>
        /\ \A e \in EdgePairs : e[2] \in Owners
        /\ \A i \in DOMAIN result.nodes :
               LET n == result.nodes[i]
               IN /\ n.id \notin Owners =>
                        (InDegree(G, n.id) = 0 /\ n.label = "RAW: " \o n.id /\ n.color = "#ff4d4d")
                  /\ InDegree(G, n.id) > 0 => n.id \in Owners

C9_Witness ==
    /\ Returned
    /\ \E i \in DOMAIN result.nodes : result.nodes[i].id \notin Owners
    /\ \E e \in EdgePairs : e[2] \in Aliases(cte_registry)
    /\ \E e \in EdgePairs : e[2] = target_name

(* C10: when no target is resolved, every returned node and edge end is a CTE
   alias or a table referenced inside a CTE definition, so a table only the
   primary query reads does not appear; with no CTE either, the result is the
   empty one. *)
C10_NoTargetOnlyCteBodies ==
    (Returned /\ target_name = None) =>
        LET inCtes == {c.alias : c \in CtesOf(parsed)} \cup
                      UNION {{TableName(t) : t \in TablesWithin(c.this)} : c \in CtesOf(parsed)}
        IN /\ NodeIds \subseteq inCtes
           /\ \A e \in EdgePairs : e[1] \in inCtes /\ e[2] \in inCtes
           /\ CtesOf(parsed) = {} => result = [nodes |-> <<>>, edges |-> <<>>]

C10_Witness ==
    /\ Returned
    /\ target_name = None
    /\ result.nodes # <<>>
    /\ \E t \in Range(parsed.from) :
          /\ TableName(t) \notin {c.alias : c \in CtesOf(parsed)}
          /\ \A c \in CtesOf(parsed) : \A u \in TablesWithin(c.this) : TableName(u) # TableName(t)

====
